---- MODULE Spec2Model ----
(***************************************************************************)
(* Bird Watching Codex (bird_watching_program.py): the interactive session *)
(* of main(), the Entry Collector enter_bird_watching_data, the selector   *)
(* select_entry and the record store save_data_to_csv /                    *)
(* load_data_from_csv / delete_entry over the backing CSV file.            *)
(*                                                                         *)
(* A text is a sequence of one-character strings, so that int(), str(),    *)
(* str.lower() and the csv module's writer and reader are computed         *)
(* character by character.  The backing file is its character content.     *)
(***************************************************************************)
EXTENDS Integers, Sequences, FiniteSets, TLC

(***************************************************************************)
(* Bounds of the model.                                                    *)
(***************************************************************************)
\* New Entry is not started once the file holds this many lines after the
\* header.
MaxRecords == 2

\* The lines after the header of a backing file the session finds.
MaxExtRows == 3

\* The file operations the operating system fails in a session, at most.
MaxFailures == 1

(***************************************************************************)
(* Python values held in a record (dict): str, int, None and the list      *)
(* csv.DictReader stores under its restkey.                                *)
(***************************************************************************)
PyStr(s) == [t |-> "str", s |-> s, n |-> 0, l |-> <<>>]

PyInt(n) == [t |-> "int", s |-> <<>>, n |-> n, l |-> <<>>]

PyNone == [t |-> "None", s |-> <<>>, n |-> 0, l |-> <<>>]

PyList(l) == [t |-> "list", s |-> <<>>, n |-> 0, l |-> l]

\* Python truthiness of a value: `not x` is the negation.
Truthy(v) ==
    CASE v.t = "str" -> v.s # <<>>
      [] v.t = "int" -> v.n # 0
      [] v.t = "list" -> v.l # <<>>
      [] OTHER -> FALSE

(***************************************************************************)
(* The schema: the fieldnames list of save_data_to_csv, load_data_from_csv *)
(* and delete_entry.                                                       *)
(***************************************************************************)
EntryName ==
    <<"E","n","t","r","y"," ","N","a","m","e">>

Species ==
    <<"S","p","e","c","i","e","s">>

NumberOfBirds ==
    <<"N","u","m","b","e","r"," ","o","f"," ","B","i","r","d","s">>

Location ==
    <<"L","o","c","a","t","i","o","n">>

DateAndTime ==
    <<"D","a","t","e"," ","a","n","d"," ","T","i","m","e">>

fieldnames == <<EntryName, Species, NumberOfBirds, Location, DateAndTime>>

\* The key None under which csv.DictReader stores the surplus fields of a
\* row longer than the header (restkey); no text is this key.
RestKey == <<"restkey=None">>

Range(f) == {f[i] : i \in DOMAIN f}

(***************************************************************************)
(* int(text) and str(int) of Python.                                       *)
(***************************************************************************)
Digits == <<"0","1","2","3","4","5","6","7","8","9">>

IsDigit(c) == \E d \in 1..10 : Digits[d] = c

DigitVal(c) == (CHOOSE d \in 1..10 : Digits[d] = c) - 1

\* Whitespace that int() strips and the terminal can deliver in a line.
IsSpace(c) == c \in {" ", "\t"}

RECURSIVE LStrip(_)
LStrip(s) ==
    IF s # <<>> /\ IsSpace(Head(s)) THEN LStrip(Tail(s)) ELSE s

RECURSIVE RStrip(_)
RStrip(s) ==
    IF s # <<>> /\ IsSpace(s[Len(s)]) THEN RStrip(SubSeq(s, 1, Len(s) - 1)) ELSE s

Strip(s) == RStrip(LStrip(s))

\* Digits with single underscores between them, as int() accepts.
IsDigitString(s) ==
    /\ s # <<>>
    /\ IsDigit(s[1])
    /\ IsDigit(s[Len(s)])
    /\ \A i \in 1..Len(s) : IsDigit(s[i]) \/ s[i] = "_"
    /\ \A i \in 1..(Len(s) - 1) : ~(s[i] = "_" /\ s[i + 1] = "_")

RECURSIVE DigitsValue(_, _)
DigitsValue(s, acc) ==
    IF s = <<>> THEN acc
    ELSE IF Head(s) = "_" THEN DigitsValue(Tail(s), acc)
    ELSE DigitsValue(Tail(s), 10 * acc + DigitVal(Head(s)))

\* int(s): ok is FALSE where Python raises ValueError.
PyIntParse(s) ==
    LET b == Strip(s)
        signed == b # <<>> /\ b[1] \in {"+", "-"}
        d == IF signed THEN Tail(b) ELSE b
    IN  IF IsDigitString(d)
        THEN [ok |-> TRUE,
              n |-> IF signed /\ b[1] = "-" THEN 0 - DigitsValue(d, 0)
                    ELSE DigitsValue(d, 0)]
        ELSE [ok |-> FALSE, n |-> 0]

RECURSIVE NatStr(_)
NatStr(n) ==
    IF n < 10 THEN <<Digits[n + 1]>>
    ELSE NatStr(n \div 10) \o <<Digits[(n % 10) + 1]>>

\* str(n) for an int n.
IntStr(n) == IF n < 0 THEN <<"-">> \o NatStr(0 - n) ELSE NatStr(n)

(***************************************************************************)
(* str.lower() on the letters the selection prompt is given.               *)
(***************************************************************************)
LowerChar(c) ==
    CASE c = "B" -> "b"
      [] c = "A" -> "a"
      [] c = "C" -> "c"
      [] c = "K" -> "k"
      [] OTHER -> c

Lower(s) == [i \in 1..Len(s) |-> LowerChar(s[i])]

back ==
    <<"b","a","c","k">>

(***************************************************************************)
(* The csv module, excel dialect: delimiter ',', quotechar '"',            *)
(* doublequote, lineterminator '\r\n', QUOTE_MINIMAL, not strict.          *)
(***************************************************************************)
CR == "\r"

LF == "\n"

QUOTE == "\""

DELIM == ","

\* The reader's pseudo-character fed after each line.
EOL == "<EOL>"

RECURSIVE Flatten(_)
Flatten(ss) == IF ss = <<>> THEN <<>> ELSE Head(ss) \o Flatten(Tail(ss))

\* csv.writer: the text written for one field value (None as '', a str as
\* it is, anything else through str()).
FieldText(v) ==
    CASE v.t = "str" -> v.s
      [] v.t = "int" -> IntStr(v.n)
      [] v.t = "None" -> <<>>
      [] OTHER -> <<"[", "]">>

NeedsQuote(s) == \E i \in 1..Len(s) : s[i] \in {DELIM, QUOTE, CR, LF}

DoubleQuotes(s) ==
    Flatten([i \in 1..Len(s) |-> IF s[i] = QUOTE THEN <<QUOTE, QUOTE>> ELSE <<s[i]>>])

QuoteField(s) ==
    IF NeedsQuote(s) THEN <<QUOTE>> \o DoubleQuotes(s) \o <<QUOTE>> ELSE s

\* csv.writer.writerow on a list of at least two field texts.
WriteRow(texts) ==
    Flatten([i \in 1..Len(texts) |->
                IF i = 1 THEN QuoteField(texts[i])
                ELSE <<DELIM>> \o QuoteField(texts[i])])
    \o <<CR, LF>>

\* csv.DictWriter.writeheader
WriteHeader == WriteRow(fieldnames)

\* csv.DictWriter.writerow raises ValueError on a key outside fieldnames
\* (extrasaction='raise').
DictWriterRaises(rowdict) == \E k \in DOMAIN rowdict : k \notin Range(fieldnames)

\* csv.DictWriter.writerow: the line for a dict without surplus keys
\* (a missing key is written as '').
DictWriteRow(rowdict) ==
    WriteRow([i \in 1..Len(fieldnames) |->
                IF fieldnames[i] \in DOMAIN rowdict
                THEN FieldText(rowdict[fieldnames[i]])
                ELSE <<>>])

\* csv.reader: one step of the parser's state machine on character c.
\* p = [state, field, fields, rows].
SaveField(p) == [p EXCEPT !.fields = Append(p.fields, p.field), !.field = <<>>]

AddChar(p, c) == [p EXCEPT !.field = Append(p.field, c)]

AfterLineEnd(c) == IF c = EOL THEN "START_RECORD" ELSE "EAT_CRNL"

ParseChar(p, c) ==
    LET st == IF p.state = "START_RECORD" /\ c \notin {EOL, CR, LF}
              THEN "START_FIELD" ELSE p.state
    IN  CASE st = "START_RECORD" ->
                IF c = EOL THEN p ELSE [p EXCEPT !.state = "EAT_CRNL"]
          [] st = "START_FIELD" ->
                IF c \in {CR, LF, EOL}
                THEN [SaveField(p) EXCEPT !.state = AfterLineEnd(c)]
                ELSE IF c = QUOTE THEN [p EXCEPT !.state = "IN_QUOTED_FIELD"]
                ELSE IF c = DELIM THEN [SaveField(p) EXCEPT !.state = "START_FIELD"]
                ELSE [AddChar(p, c) EXCEPT !.state = "IN_FIELD"]
          [] st = "IN_FIELD" ->
                IF c \in {CR, LF, EOL}
                THEN [SaveField(p) EXCEPT !.state = AfterLineEnd(c)]
                ELSE IF c = DELIM THEN [SaveField(p) EXCEPT !.state = "START_FIELD"]
                ELSE AddChar(p, c)
          [] st = "IN_QUOTED_FIELD" ->
                IF c = EOL THEN p
                ELSE IF c = QUOTE THEN [p EXCEPT !.state = "QUOTE_IN_QUOTED_FIELD"]
                ELSE AddChar(p, c)
          [] st = "QUOTE_IN_QUOTED_FIELD" ->
                IF c = QUOTE THEN [AddChar(p, c) EXCEPT !.state = "IN_QUOTED_FIELD"]
                ELSE IF c = DELIM THEN [SaveField(p) EXCEPT !.state = "START_FIELD"]
                ELSE IF c \in {CR, LF, EOL}
                THEN [SaveField(p) EXCEPT !.state = AfterLineEnd(c)]
                ELSE [AddChar(p, c) EXCEPT !.state = "IN_FIELD"]
          [] OTHER ->  \* EAT_CRNL
                IF c = EOL THEN [p EXCEPT !.state = "START_RECORD"] ELSE p

\* The end of a line of the file (opened with newline=''): the reader is fed
\* EOL, and returns the row when it is back in START_RECORD.
EndLine(p) ==
    LET q == ParseChar(p, EOL)
    IN  IF q.state = "START_RECORD"
        THEN [q EXCEPT !.rows = Append(q.rows, q.fields), !.fields = <<>>]
        ELSE q

\* The file iterator is exhausted: an unfinished quoted field ends the last
\* row.
EndFile(p) ==
    IF p.state = "IN_QUOTED_FIELD" \/ p.field # <<>>
    THEN Append(p.rows, Append(p.fields, p.field))
    ELSE p.rows

ParserStates ==
    {"START_RECORD", "START_FIELD", "IN_FIELD", "IN_QUOTED_FIELD",
     "QUOTE_IN_QUOTED_FIELD", "EAT_CRNL"}

\* The parser after character i of the file: the character is processed,
\* and at the end of a line the row is returned.
ParseAt(content, i, p) ==
    LET c == content[i]
        q == ParseChar(p, c)
        lineEnds == \/ c = LF
                    \/ c = CR /\ ~(i < Len(content) /\ content[i + 1] = LF)
                    \/ i = Len(content)
    IN  IF lineEnds THEN EndLine(q) ELSE q

\* The parser after the characters lo..hi of the file, one after the other
\* (the range is halved to keep the evaluation shallow).
RECURSIVE ParseRange(_, _, _, _)
ParseRange(content, lo, hi, p) ==
    IF lo > hi THEN p
    ELSE IF lo = hi THEN ParseAt(content, lo, p)
    ELSE LET mid == (lo + hi) \div 2
             left == ParseRange(content, lo, mid, p)
         IN  IF left.state \notin ParserStates THEN left
             ELSE ParseRange(content, mid + 1, hi, left)

\* list(csv.reader(file)): the rows of a file, each a list of texts.
ReadRows(content) ==
    EndFile(ParseRange(content, 1, Len(content),
                       [state |-> "START_RECORD", field |-> <<>>,
                        fields |-> <<>>, rows |-> <<>>]))

\* csv.DictReader.__next__ for one non-empty row under the header names:
\* zip, then restkey None for surplus fields, restval None for missing ones.
DictOfRow(names, row) ==
    LET keys == Range(names) \cup (IF Len(row) > Len(names) THEN {RestKey} ELSE {})
        last(k) == CHOOSE i \in 1..Len(names) :
                      names[i] = k /\ \A j \in (i + 1)..Len(names) : names[j] # k
    IN  [k \in keys |->
            IF k = RestKey THEN PyList(SubSeq(row, Len(names) + 1, Len(row)))
            ELSE IF last(k) <= Len(row) THEN PyStr(row[last(k)])
            ELSE PyNone]

IsNonEmptyRow(row) == row # <<>>

\* list(csv.DictReader(file)): the first row is the header, empty rows are
\* skipped.
DictReadAll(content) ==
    LET rows == ReadRows(content)
    IN  IF rows = <<>> THEN <<>>
        ELSE LET body == SelectSeq(Tail(rows), IsNonEmptyRow)
             IN  [i \in 1..Len(body) |-> DictOfRow(rows[1], body[i])]

(***************************************************************************)
(* The state of a session.                                                 *)
(***************************************************************************)
VARIABLES
    pc,          \* the input() call the program is blocked in, or "terminated"
    running,     \* main: running
    inp,         \* what the last input() call delivered
    entry,       \* enter_bird_watching_data: entry (main: data)
    data,        \* main: all_data; delete_entry: data
    caller,      \* who called select_entry: "load" (main) or "delete"
    selected,    \* the value select_entry returned last (main, delete_entry: entry)
    listing,     \* the numbered names select_entry printed in the last step
    shown,       \* the record display_data printed in the last step
    out,         \* the messages printed in the last step
    event,       \* what the last step did
    fs_exists,   \* os.path.isfile(file_path)
    fs_content,  \* the characters of the backing file
    ext,         \* the header and rows of the file the session found, if any
    io_failures  \* how many file operations the operating system has failed

vars ==
    <<pc, running, inp, entry, data, caller, selected, listing, shown, out,
      event, fs_exists, fs_content, ext, io_failures>>

\* A line typed at a prompt, and the end of standard input (input() raises
\* EOFError).
Line(s) == [eof |-> FALSE, s |-> s]

EndOfInput == [eof |-> TRUE, s |-> <<>>]

\* The Python value None where a record (dict) is expected.
NoRecord == [k \in {<<"None">>} |-> PyNone]

\* The dict literal of enter_bird_watching_data before any prompt is answered.
EmptyEntry == [k \in Range(fieldnames) |-> PyNone]

(***************************************************************************)
(* What the user may type at each prompt.                                  *)
(***************************************************************************)
MenuInputs == {<<"1">>, <<"2">>, <<"3">>, <<"4">>, <<"5">>, <<" ", "4">>}

NameInputs == {<<>>, <<"a">>}

SpeciesInputs == {<<"r">>}

LocationInputs == {<<"p", ",", "\"">>}

NumberInputs == {<<"3">>, <<" ", "-", "1", "_", "2">>, <<"x">>, <<>>}

DateInputs == {<<>>, <<"d">>}

ConfirmInputs == {<<>>, <<"y">>}

SelectInputs ==
    {back, <<"B", "a", "C", "K">>, <<"b", "a", "c", "k", " ">>,
     <<"1">>, <<" ", "2", " ">>, <<"3">>, <<"4">>, <<"0">>, <<"-", "1">>,
     <<"x">>, <<>>}

(***************************************************************************)
(* The record store.                                                       *)
(***************************************************************************)
\* A test of a row that looks only for the keys.
HasAllKeys(row) ==
    \A i \in 1..Len(fieldnames) : fieldnames[i] \in DOMAIN row

\* load_data_from_csv: the test of a row (line 88).
HasAllFields(row) ==
    \A i \in 1..Len(fieldnames) :
        fieldnames[i] \in DOMAIN row /\ row[fieldnames[i]].t # "None"

\* load_data_from_csv(file_path) on a file that is read without failure.
load_data_from_csv(exists, content) ==
    IF ~exists THEN <<>>
    ELSE SelectSeq(DictReadAll(content), HasAllFields)

\* An append that writes the header whether or not the file exists.
SaveAlwaysWithHeader(exists, content, d) ==
    (IF exists THEN content ELSE <<>>)
    \o WriteHeader
    \o (IF DictWriterRaises(d) THEN <<>> ELSE DictWriteRow(d))

\* save_data_to_csv: the content of the file after the append.
save_data_to_csv(exists, content, d) ==
    (IF exists THEN content ELSE WriteHeader)
    \o (IF DictWriterRaises(d) THEN <<>> ELSE DictWriteRow(d))

\* A removal that takes out every item equal to x.
ListRemoveAll(list, x) ==
    LET Differs(y) == y # x IN SelectSeq(list, Differs)

\* A removal that takes out every item with the entry name of x.
ListRemoveByName(list, x) ==
    LET OtherName(y) == y[EntryName] # x[EntryName] IN SelectSeq(list, OtherName)

\* list.remove(x): the first item equal to x is removed.
RECURSIVE ListRemove(_, _)
ListRemove(list, x) ==
    IF list = <<>> THEN <<>>
    ELSE IF Head(list) = x THEN Tail(list)
    ELSE <<Head(list)>> \o ListRemove(Tail(list), x)

\* delete_entry, lines 159-163: the rows written until one raises.
RECURSIVE WriteRows(_)
WriteRows(list) ==
    IF list = <<>> \/ DictWriterRaises(Head(list)) THEN <<>>
    ELSE DictWriteRow(Head(list)) \o WriteRows(Tail(list))

RewriteRaises(list) == \E i \in 1..Len(list) : DictWriterRaises(list[i])

\* delete_entry: the content of the file after the rewrite of the list.
RewriteContent(list) == WriteHeader \o WriteRows(list)

\* A filter that keeps every record with the key, whatever its value.
HasNameKey(e) == EntryName \in DOMAIN e

\* select_entry, line 116.
IsNamed(e) == EntryName \in DOMAIN e /\ Truthy(e[EntryName])

ValidEntries(list) == SelectSeq(list, IsNamed)

\* The number of lines of the file after its first.
IsLF(c) == c = LF

DataLines(exists, content) ==
    IF ~exists \/ content = <<>> THEN 0 ELSE Len(SelectSeq(content, IsLF)) - 1

\* No file was there when the session started.
NoFile == [header |-> <<>>, rows |-> <<>>]

(***************************************************************************)
(* The session: one action per input() call and what the program does      *)
(* with its answer up to the next input() call.                            *)
(***************************************************************************)
Init ==
    /\ pc = "menu"
    /\ running = TRUE
    /\ inp = Line(<<>>)
    /\ entry = EmptyEntry
    /\ data = <<>>
    /\ caller = "main"
    /\ selected = NoRecord
    /\ listing = <<>>
    /\ shown = NoRecord
    /\ out = <<>>
    /\ event = "start"
    /\ fs_exists = FALSE
    /\ fs_content = <<>>
    /\ ext = NoFile
    /\ io_failures = 0

\* The locals of the action the menu dispatched last are dead once the menu
\* reads its next choice.
ResetLocals ==
    /\ entry' = EmptyEntry
    /\ data' = <<>>
    /\ caller' = "main"
    /\ selected' = NoRecord

\* main, line 182: input() raises EOFError outside every try block.
MenuEndOfInput ==
    /\ pc = "menu"
    /\ inp' = EndOfInput
    /\ pc' = "terminated"
    /\ out' = <<"Traceback: EOFError">>
    /\ event' = "crashed"
    /\ listing' = <<>>
    /\ shown' = NoRecord
    /\ ResetLocals
    /\ UNCHANGED <<io_failures, ext, running, fs_exists, fs_content>>

\* main, lines 183-185: choice '1' enters enter_bird_watching_data, which
\* prompts for the entry name.
MenuNewEntry ==
    /\ pc = "menu"
    /\ DataLines(fs_exists, fs_content) < MaxRecords
    /\ inp' = Line(<<"1">>)
    /\ pc' = "entry_name"
    /\ out' = <<>>
    /\ event' = "new_entry"
    /\ listing' = <<>>
    /\ shown' = NoRecord
    /\ ResetLocals
    /\ UNCHANGED <<io_failures, ext, running, fs_exists, fs_content>>

\* A selector without the test for an empty list.
SelectEntryWithoutEmptyTest(d, who, printed) ==
    /\ data' = d
    /\ entry' = EmptyEntry
    /\ selected' = NoRecord
    /\ shown' = NoRecord
    /\ IF ValidEntries(d) = <<>>
       THEN /\ out' = printed \o <<"No named entries found.">>
            /\ event' = "no_named"
            /\ listing' = <<>>
            /\ pc' = "menu"
            /\ caller' = "main"
       ELSE /\ out' = printed \o <<"Saved Entries:">>
            /\ event' = "listed"
            /\ listing' = [i \in 1..Len(ValidEntries(d)) |->
                              [number |-> i, name |-> ValidEntries(d)[i][EntryName].s]]
            /\ pc' = "select"
            /\ caller' = who

\* select_entry, lines 112-125, for the list d, after the caller's load
\* printed the messages in printed: it returns None without a prompt, or
\* prints the numbered names and prompts.  For an empty list the callers
\* (lines 147-149 and 192-193) print the same message and do not call it.
SelectEntryAfter(d, who, printed) ==
    /\ data' = d
    /\ entry' = EmptyEntry
    /\ selected' = NoRecord
    /\ shown' = NoRecord
    /\ IF d = <<>>
       THEN /\ out' = printed \o <<"No entries found.">>
            /\ event' = "no_entries"
            /\ listing' = <<>>
            /\ pc' = "menu"
            /\ caller' = "main"
       ELSE IF ValidEntries(d) = <<>>
       THEN /\ out' = printed \o <<"No named entries found.">>
            /\ event' = "no_named"
            /\ listing' = <<>>
            /\ pc' = "menu"
            /\ caller' = "main"
       ELSE /\ out' = printed \o <<"Saved Entries:">>
            /\ event' = "listed"
            /\ listing' = [i \in 1..Len(ValidEntries(d)) |->
                              [number |-> i, name |-> ValidEntries(d)[i][EntryName].s]]
            /\ pc' = "select"
            /\ caller' = who

\* select_entry, lines 112-125, after a load that printed nothing.
SelectEntryStart(d, who) == SelectEntryAfter(d, who, <<>>)

\* A delete that opens the file for writing before the selection.
MenuDeleteEntryOpeningFirst ==
    /\ pc = "menu"
    /\ inp' = Line(<<"3">>)
    /\ SelectEntryStart(load_data_from_csv(fs_exists, fs_content), "delete")
    /\ fs_exists' = TRUE
    /\ fs_content' = <<>>
    /\ UNCHANGED <<io_failures, ext, running>>

\* main, lines 190-196: choice '2'.
MenuLoadEntry ==
    /\ pc = "menu"
    /\ inp' = Line(<<"2">>)
    /\ SelectEntryStart(load_data_from_csv(fs_exists, fs_content), "load")
    /\ UNCHANGED <<io_failures, ext, running, fs_exists, fs_content>>

\* main, lines 201-203 and delete_entry, lines 146-151: choice '3'.
MenuDeleteEntry ==
    /\ pc = "menu"
    /\ inp' = Line(<<"3">>)
    /\ SelectEntryStart(load_data_from_csv(fs_exists, fs_content), "delete")
    /\ UNCHANGED <<io_failures, ext, running, fs_exists, fs_content>>

\* main, lines 206-208: choice '4'.
MenuExit ==
    /\ pc = "menu"
    /\ inp' = Line(<<"4">>)
    /\ running' = FALSE
    /\ pc' = "terminated"
    /\ out' = <<"Exiting program.">>
    /\ event' = "exit"
    /\ listing' = <<>>
    /\ shown' = NoRecord
    /\ ResetLocals
    /\ UNCHANGED <<io_failures, ext, fs_exists, fs_content>>

\* main, lines 209-210: any other choice.
MenuInvalid ==
    /\ pc = "menu"
    /\ \E s \in MenuInputs \ {<<"1">>, <<"2">>, <<"3">>, <<"4">>} : inp' = Line(s)
    /\ pc' = "menu"
    /\ out' = <<"Invalid choice.">>
    /\ event' = "menu_invalid"
    /\ listing' = <<>>
    /\ shown' = NoRecord
    /\ ResetLocals
    /\ UNCHANGED <<io_failures, ext, running, fs_exists, fs_content>>

\* enter_bird_watching_data, line 28.
EnterEntryName ==
    /\ pc = "entry_name"
    /\ \E s \in NameInputs :
          /\ inp' = Line(s)
          /\ entry' = [entry EXCEPT ![EntryName] = PyStr(s)]
    /\ pc' = "species"
    /\ out' = <<>>
    /\ event' = "field"
    /\ UNCHANGED <<io_failures, ext, running, data, caller, selected, listing, shown, fs_exists, fs_content>>

\* enter_bird_watching_data, line 29.
EnterSpecies ==
    /\ pc = "species"
    /\ \E s \in SpeciesInputs :
          /\ inp' = Line(s)
          /\ entry' = [entry EXCEPT ![Species] = PyStr(s)]
    /\ pc' = "location"
    /\ out' = <<>>
    /\ event' = "field"
    /\ UNCHANGED <<io_failures, ext, running, data, caller, selected, listing, shown, fs_exists, fs_content>>

\* enter_bird_watching_data, line 31.
EnterLocation ==
    /\ pc = "location"
    /\ \E s \in LocationInputs :
          /\ inp' = Line(s)
          /\ entry' = [entry EXCEPT ![Location] = PyStr(s)]
    /\ pc' = "number"
    /\ out' = <<>>
    /\ event' = "field"
    /\ UNCHANGED <<io_failures, ext, running, data, caller, selected, listing, shown, fs_exists, fs_content>>

\* A number loop that, like the date loop, stores before it tests.
NumberStepStoresFirst(e, s) ==
    IF PyIntParse(s).ok
    THEN [entry |-> [e EXCEPT ![NumberOfBirds] = PyInt(PyIntParse(s).n)],
          out |-> <<>>,
          again |-> FALSE]
    ELSE [entry |-> [e EXCEPT ![NumberOfBirds] = PyStr(s)],
          out |-> <<"Invalid input for number of birds. Please enter an integer.">>,
          again |-> FALSE]

\* enter_bird_watching_data, lines 35-39: one pass of the loop.
NumberStep(e, s) ==
    IF PyIntParse(s).ok
    THEN [entry |-> [e EXCEPT ![NumberOfBirds] = PyInt(PyIntParse(s).n)],
          out |-> <<>>,
          again |-> FALSE]
    ELSE [entry |-> e,
          out |-> <<"Invalid input for number of birds. Please enter an integer.">>,
          again |-> TRUE]

EnterNumber ==
    /\ pc = "number"
    /\ \E s \in NumberInputs :
          /\ inp' = Line(s)
          /\ entry' = NumberStep(entry, s).entry
          /\ out' = NumberStep(entry, s).out
          /\ pc' = IF NumberStep(entry, s).again THEN "number" ELSE "datetime"
          /\ event' = IF NumberStep(entry, s).again THEN "number_bad" ELSE "number_ok"
    /\ UNCHANGED <<io_failures, ext, running, data, caller, selected, listing, shown, fs_exists, fs_content>>

\* enter_bird_watching_data, lines 41-48: one pass of the loop.  The answer
\* is stored before it is tested, and the loop tests the stored value
\* against None.
DateTimeStep(e, s) ==
    LET stored == [e EXCEPT ![DateAndTime] = PyStr(s)]
    IN  [entry |-> stored,
         out |-> IF s = <<>>
                 THEN <<"Invalid input for date and time. Please enter a valid date and time.">>
                 ELSE <<>>,
         again |-> stored[DateAndTime].t = "None"]

EnterDateTime ==
    /\ pc = "datetime"
    /\ \E s \in DateInputs :
          /\ inp' = Line(s)
          /\ entry' = DateTimeStep(entry, s).entry
          /\ out' = DateTimeStep(entry, s).out
          /\ pc' = IF DateTimeStep(entry, s).again THEN "datetime" ELSE "confirm"
          /\ event' = IF s = <<>> THEN "date_bad" ELSE "date_ok"
    /\ UNCHANGED <<io_failures, ext, running, data, caller, selected, listing, shown, fs_exists, fs_content>>

\* A confirmation that any answer passes.
ConfirmedByAnything(s) == s = s

\* enter_bird_watching_data, lines 50-54, and main, lines 186-187: whether
\* the answer to the confirmation prompt ends the collector.
Confirmed(s) == s = <<>>

\* main, line 187, after the collector returned e: the file afterwards.
SaveStep(exists, content, e) ==
    [exists |-> TRUE,
     content |-> save_data_to_csv(exists, content, e),
     out |-> IF DictWriterRaises(e) THEN <<"Unexpected error">> ELSE <<>>]

ConfirmSave ==
    /\ pc = "confirm"
    /\ \E s \in ConfirmInputs :
          /\ inp' = Line(s)
          /\ IF Confirmed(s)
             THEN /\ pc' = "menu"
                  /\ event' = "saved"
                  /\ fs_exists' = SaveStep(fs_exists, fs_content, entry).exists
                  /\ fs_content' = SaveStep(fs_exists, fs_content, entry).content
                  /\ out' = SaveStep(fs_exists, fs_content, entry).out
             ELSE /\ pc' = "confirm"
                  /\ event' = "confirm_bad"
                  /\ out' = <<>>
                  /\ UNCHANGED <<fs_exists, fs_content>>
    /\ UNCHANGED <<io_failures, ext, running, entry, data, caller, selected, listing, shown>>

\* input() raises EOFError at a prompt of enter_bird_watching_data; main
\* catches it at lines 188-189.
CollectorEndOfInput ==
    /\ pc \in {"entry_name", "species", "location", "number", "datetime", "confirm"}
    /\ inp' = EndOfInput
    /\ pc' = "menu"
    /\ out' = <<"An error occurred while entering or saving data">>
    /\ event' = "caught_eof"
    /\ UNCHANGED <<io_failures, ext, running, entry, data, caller, selected, listing, shown, fs_exists, fs_content>>

\* A selection prompt that compares the answer with 'back' as typed.
SelectStepCaseSensitive(valid, s) ==
    IF s = back
    THEN [returns |-> TRUE, value |-> NoRecord, out |-> <<>>]
    ELSE IF ~PyIntParse(s).ok
    THEN [returns |-> FALSE, value |-> NoRecord,
          out |-> <<"Invalid input. Please enter a number or 'back'.">>]
    ELSE IF 0 <= PyIntParse(s).n - 1 /\ PyIntParse(s).n - 1 < Len(valid)
    THEN [returns |-> TRUE, value |-> valid[PyIntParse(s).n], out |-> <<>>]
    ELSE [returns |-> FALSE, value |-> NoRecord,
          out |-> <<"Invalid choice. Please try again.">>]

\* A selection prompt that takes the answer as a 0-based position.
SelectStepZeroBased(valid, s) ==
    IF Lower(s) = back
    THEN [returns |-> TRUE, value |-> NoRecord, out |-> <<>>]
    ELSE IF ~PyIntParse(s).ok
    THEN [returns |-> FALSE, value |-> NoRecord,
          out |-> <<"Invalid input. Please enter a number or 'back'.">>]
    ELSE IF 0 <= PyIntParse(s).n /\ PyIntParse(s).n < Len(valid)
    THEN [returns |-> TRUE, value |-> valid[PyIntParse(s).n + 1], out |-> <<>>]
    ELSE [returns |-> FALSE, value |-> NoRecord,
          out |-> <<"Invalid choice. Please try again.">>]

\* select_entry, lines 129-139: what one answer to the selection prompt
\* yields: a return (of None or of a record) or another prompt.
SelectStep(valid, s) ==
    IF Lower(s) = back
    THEN [returns |-> TRUE, value |-> NoRecord, out |-> <<>>]
    ELSE IF ~PyIntParse(s).ok
    THEN [returns |-> FALSE, value |-> NoRecord,
          out |-> <<"Invalid input. Please enter a number or 'back'.">>]
    ELSE IF 0 <= PyIntParse(s).n - 1 /\ PyIntParse(s).n - 1 < Len(valid)
    THEN [returns |-> TRUE, value |-> valid[PyIntParse(s).n], out |-> <<>>]
    ELSE [returns |-> FALSE, value |-> NoRecord,
          out |-> <<"Invalid choice. Please try again.">>]

\* A delete that writes back the list it loaded, the selected record
\* included.
DeleteStepWritingAll(list, e) ==
    [data |-> ListRemove(list, e),
     content |-> RewriteContent(list),
     out |-> IF RewriteRaises(ListRemove(list, e))
             THEN <<"Unexpected error">> ELSE <<"Entry deleted">>]

\* delete_entry, lines 155-168, for the selected record e.
DeleteStep(list, e) ==
    [data |-> ListRemove(list, e),
     content |-> RewriteContent(ListRemove(list, e)),
     out |-> IF RewriteRaises(ListRemove(list, e))
             THEN <<"Unexpected error">> ELSE <<"Entry deleted">>]

SelectChoice ==
    /\ pc = "select"
    /\ \E s \in SelectInputs :
         LET r == SelectStep(ValidEntries(data), s)
         IN  /\ inp' = Line(s)
             /\ selected' = r.value
             /\ IF ~r.returns
                THEN /\ pc' = "select"
                     /\ out' = r.out
                     /\ event' = "select_bad"
                     /\ shown' = NoRecord
                     /\ UNCHANGED <<data, caller, fs_exists, fs_content>>
                ELSE IF r.value = NoRecord
                THEN /\ pc' = "menu"
                     /\ out' = <<>>
                     /\ event' = "cancelled"
                     /\ shown' = NoRecord
                     /\ UNCHANGED <<data, caller, fs_exists, fs_content>>
                ELSE IF caller = "load"
                THEN /\ pc' = "menu"
                     /\ out' = <<>>
                     /\ event' = "displayed"
                     /\ shown' = r.value
                     /\ UNCHANGED <<data, caller, fs_exists, fs_content>>
                ELSE /\ pc' = "menu"
                     /\ data' = DeleteStep(data, r.value).data
                     /\ fs_exists' = TRUE
                     /\ fs_content' = DeleteStep(data, r.value).content
                     /\ out' = DeleteStep(data, r.value).out
                     /\ event' = IF RewriteRaises(DeleteStep(data, r.value).data)
                                 THEN "rewrite_raised" ELSE "deleted"
                     /\ shown' = NoRecord
                     /\ UNCHANGED caller
    /\ listing' = <<>>
    /\ UNCHANGED <<io_failures, ext, running, entry>>

\* input() raises EOFError at the prompt of select_entry (line 129, outside
\* its try block); main catches it at lines 199-200 or 204-205.
SelectEndOfInput ==
    /\ pc = "select"
    /\ inp' = EndOfInput
    /\ pc' = "menu"
    /\ out' = IF caller = "load"
              THEN <<"An error occurred while loading data">>
              ELSE <<"An error occurred while deleting the entry">>
    /\ event' = "caught_eof"
    /\ listing' = <<>>
    /\ UNCHANGED <<io_failures, ext, running, entry, data, caller, selected, shown, fs_exists, fs_content>>

Next ==
    \/ MenuEndOfInput
    \/ MenuNewEntry
    \/ MenuLoadEntry
    \/ MenuDeleteEntry
    \/ MenuExit
    \/ MenuInvalid
    \/ EnterEntryName
    \/ EnterSpecies
    \/ EnterLocation
    \/ EnterNumber
    \/ EnterDateTime
    \/ ConfirmSave
    \/ CollectorEndOfInput
    \/ SelectChoice
    \/ SelectEndOfInput

Spec == Init /\ [][Next]_vars

(***************************************************************************)
(* A session that finds a backing file left by an earlier run and edited   *)
(* by hand: the header (whole, or without its last column) and up to       *)
(* MaxExtRows lines, each complete, short of a field, with a field too     *)
(* many, or blank.  The user loads, selects and deletes.                   *)
(***************************************************************************)
CompleteRow == <<<<"a">>, <<"r">>, <<"3">>, <<"p", ",", "\"">>, <<"d">>>>

ShortRow == <<<<"b">>, <<"r">>, <<"7">>, <<"q">>>>

LongRow == <<<<"c">>, <<"r">>, <<"1">>, <<"p">>, <<"d">>, <<"x">>>>

BlankRow == <<>>

ExtRowKinds == {CompleteRow, ShortRow, LongRow, BlankRow}

ExtHeaders == {fieldnames, SubSeq(fieldnames, 1, 4)}

RECURSIVE RowLists(_)
RowLists(n) ==
    IF n = 0 THEN {<<>>}
    ELSE RowLists(n - 1) \cup
         {Append(l, r) : l \in {x \in RowLists(n - 1) : Len(x) = n - 1}, r \in ExtRowKinds}

ExternalFiles == [header : ExtHeaders, rows : RowLists(MaxExtRows)]

\* The characters of such a file, as a csv writer puts them.
ExternalContent(e) ==
    WriteRow(e.header) \o Flatten([i \in 1..Len(e.rows) |-> WriteRow(e.rows[i])])

InitFile ==
    /\ pc = "menu"
    /\ running = TRUE
    /\ inp = Line(<<>>)
    /\ entry = EmptyEntry
    /\ data = <<>>
    /\ caller = "main"
    /\ selected = NoRecord
    /\ listing = <<>>
    /\ shown = NoRecord
    /\ out = <<>>
    /\ event = "start"
    /\ fs_exists = TRUE
    /\ ext \in ExternalFiles
    /\ io_failures = 0
    /\ fs_content = ExternalContent(ext)

NextFile ==
    \/ MenuEndOfInput
    \/ MenuLoadEntry
    \/ MenuDeleteEntry
    \/ MenuExit
    \/ MenuInvalid
    \/ SelectChoice
    \/ SelectEndOfInput

SpecFile == InitFile /\ [][NextFile]_vars

(***************************************************************************)
(* A session in which the operating system fails file operations: at most  *)
(* MaxFailures times, a read of the backing file raises after some of its  *)
(* records were taken, or an append raises at open or after part of its    *)
(* text reached the file.                                                  *)
(***************************************************************************)
\* load_data_from_csv, lines 79-94, when the read raises after k records
\* were appended to data: the handlers print and line 94 returns data.
LoadUntilFailure(exists, content, k) ==
    SubSeq(load_data_from_csv(exists, content), 1, k)

\* load_data_from_csv, lines 90-93: what the two handlers print.
ReadFailureMessages == {"Unable to read file.", "Unexpected error"}

\* main, lines 190-196, with load_data_from_csv raising inside its try.
MenuLoadEntryReadFails ==
    /\ pc = "menu"
    /\ fs_exists
    /\ io_failures < MaxFailures
    /\ inp' = Line(<<"2">>)
    /\ \E k \in 0..Len(load_data_from_csv(fs_exists, fs_content)) :
       \E msg \in ReadFailureMessages :
          SelectEntryAfter(LoadUntilFailure(fs_exists, fs_content, k), "load", <<msg>>)
    /\ io_failures' = io_failures + 1
    /\ UNCHANGED <<ext, running, fs_exists, fs_content>>

\* delete_entry, lines 146-151, with load_data_from_csv raising inside its
\* try.
MenuDeleteEntryReadFails ==
    /\ pc = "menu"
    /\ fs_exists
    /\ io_failures < MaxFailures
    /\ inp' = Line(<<"3">>)
    /\ \E k \in 0..Len(load_data_from_csv(fs_exists, fs_content)) :
       \E msg \in ReadFailureMessages :
          SelectEntryAfter(LoadUntilFailure(fs_exists, fs_content, k), "delete", <<msg>>)
    /\ io_failures' = io_failures + 1
    /\ UNCHANGED <<ext, running, fs_exists, fs_content>>

\* save_data_to_csv, lines 64-68: the text the append hands to the file.
AppendText(exists, d) ==
    (IF exists THEN <<>> ELSE WriteHeader) \o DictWriteRow(d)

\* save_data_to_csv, lines 64-70, when open() succeeded and a write raised
\* after n characters of the text reached the file: open(.., 'a') has
\* created the file, and nothing takes the characters back.
SaveUntilFailure(exists, content, d, n) ==
    (IF exists THEN content ELSE <<>>) \o SubSeq(AppendText(exists, d), 1, n)

\* Where a failing write is taken to stop: before the first character, at
\* the end of the header (when line 67 wrote one), and before the last
\* character of the row.
WriteFailurePoints(exists, d) ==
    {0, Len(AppendText(exists, d)) - Len(DictWriteRow(d)), Len(AppendText(exists, d)) - 1}

\* main, line 187, with save_data_to_csv raising IOError: at open(), or at
\* a write.
ConfirmSaveWriteFails ==
    /\ pc = "confirm"
    /\ io_failures < MaxFailures
    /\ \E s \in ConfirmInputs :
          /\ Confirmed(s)
          /\ inp' = Line(s)
    /\ \/ UNCHANGED <<fs_exists, fs_content>>
       \/ \E n \in WriteFailurePoints(fs_exists, entry) :
             /\ fs_exists' = TRUE
             /\ fs_content' = SaveUntilFailure(fs_exists, fs_content, entry, n)
    /\ pc' = "menu"
    /\ out' = <<"Unable to write to file.">>
    /\ event' = "save_failed"
    /\ io_failures' = io_failures + 1
    /\ UNCHANGED <<ext, running, entry, data, caller, selected, listing, shown>>

NextIO ==
    \/ Next
    \/ MenuLoadEntryReadFails
    \/ MenuDeleteEntryReadFails
    \/ ConfirmSaveWriteFails

SpecIO == Init /\ [][NextIO]_vars

(***************************************************************************)
(* Properties.                                                             *)
(***************************************************************************)
\* What Load-all returns for the backing file as it is now.
Stored == load_data_from_csv(fs_exists, fs_content)

\* What Load-all returns for the backing file as the step leaves it.
StoredNext == load_data_from_csv(fs_exists', fs_content')

\* A collected record as the file gives it back: every value as the text
\* the csv writer wrote for it.
AsLoaded(e) == [k \in DOMAIN e |-> PyStr(FieldText(e[k]))]

CollectorPrompts ==
    {"entry_name", "species", "location", "number", "datetime", "confirm"}

\* C1: enter_bird_watching_data never returns a record whose 'Date and
\* Time' field is empty: the record the collector returned, which main then
\* saved, holds a non-empty text there.
C1_DateTimeNeverEmpty ==
    event = "saved" =>
        entry[DateAndTime].t = "str" /\ entry[DateAndTime].s # <<>>

\* C2: after save_data_to_csv appended a record, load_data_from_csv
\* returns a sequence containing that record unchanged, all five values
\* equal to the values appended, Number of Birds included.
C2_AppendedRecordLoadedUnchanged ==
    event = "saved" => \E i \in 1..Len(Stored) : Stored[i] = entry

\* The sequence s without its i-th item.
WithoutIndex(s, i) == SubSeq(s, 1, i - 1) \o SubSeq(s, i + 1, Len(s))

C4_SessionEndsOnlyByExit ==
    pc = "terminated" => inp = Line(<<"4">>) /\ running = FALSE

\* How many items of the sequence s equal x.
Count(s, x) == Cardinality({i \in 1..Len(s) : s[i] = x})

\* C5: two records with the same Entry Name that differ in another field
\* are both stored; select_entry lists every stored record with a name
\* under its own number; and deleting the selected one takes out one
\* occurrence of it and leaves each record of the same name that differs
\* from it as often as it was.
C5_SameNameRecordsIndependent ==
    /\ [](event = "listed" =>
            /\ Len(listing) =
                 Cardinality({i \in 1..Len(Stored) : Stored[i][EntryName].s # <<>>})
            /\ \A m \in 1..Len(listing) : listing[m].number = m)
    /\ [][(pc = "confirm" /\ event' = "saved") =>
            /\ Len(StoredNext) = Len(Stored) + 1
            /\ \A i \in 1..Len(Stored) : StoredNext[i] = Stored[i]
            /\ StoredNext[Len(StoredNext)][EntryName] = entry[EntryName]]_vars
    /\ [][(pc = "select" /\ event' = "deleted") =>
            /\ Count(StoredNext, selected') = Count(Stored, selected') - 1
            /\ \A j \in 1..Len(Stored) :
                  (Stored[j][EntryName] = selected'[EntryName] /\ Stored[j] # selected')
                  => Count(StoredNext, Stored[j]) = Count(Stored, Stored[j])]_vars

\* C5 happens: a record was deleted and a different record of the same
\* entry name is still stored.
C5_Witness ==
    /\ event = "deleted"
    /\ \E i \in 1..Len(Stored) :
          Stored[i][EntryName] = selected[EntryName] /\ Stored[i] # selected

\* C6: from an absent or emptied store, appending one record makes
\* Load-all return exactly one record equal to it, and deleting the only
\* record makes Load-all return the empty sequence, in every cycle.
C6_AppendDeleteCycle ==
    [][/\ (pc = "confirm" /\ event' = "saved" /\ Stored = <<>>)
            => StoredNext = <<entry>>
       /\ (pc = "select" /\ event' = "deleted" /\ Len(Stored) = 1)
            => StoredNext = <<>>]_vars

\* The five schema values of a loaded record, in schema order.
SchemaValues(d) == [i \in 1..Len(fieldnames) |-> d[fieldnames[i]].s]

IsCompleteRow(row) == Len(row) >= Len(fieldnames)

\* The rows of the file the session found that have the five schema fields:
\* the first five texts of each line of five or more fields, in file order,
\* and none when the header lacks a schema column.
CompleteRows(e) ==
    IF e.header # fieldnames THEN <<>>
    ELSE LET kept == SelectSeq(e.rows, IsCompleteRow)
         IN  [i \in 1..Len(kept) |-> SubSeq(kept[i], 1, Len(fieldnames))]

\* C7: load_data_from_csv returns only complete records: every record of a
\* loaded list has the five schema fields, none of them None, and for a
\* file with rows that miss a field the list is the complete rows of the
\* file, in file order, the others skipped.
C7_LoadReturnsOnlyCompleteRecords ==
    /\ \A i \in 1..Len(data) : \A f \in Range(fieldnames) :
          f \in DOMAIN data[i] /\ data[i][f].t = "str"
    /\ (event \in {"listed", "no_named", "no_entries"} /\ fs_content = ExternalContent(ext))
          => [i \in 1..Len(data) |-> SchemaValues(data[i])] = CompleteRows(ext)

\* C7 happens: a file with a short row between two complete rows was loaded
\* and the two complete rows were returned.
C7_Witness ==
    /\ event = "listed"
    /\ ext = [header |-> fieldnames, rows |-> <<CompleteRow, ShortRow, CompleteRow>>]
    /\ fs_content = ExternalContent(ext)
    /\ Len(data) = 2

\* The text s is 'back' in some letter case.
IsBackInAnyCase(s) ==
    /\ Len(s) = 4
    /\ s[1] \in {"b", "B"}
    /\ s[2] \in {"a", "A"}
    /\ s[3] \in {"c", "C"}
    /\ s[4] \in {"k", "K"}

\* C8: select_entry returns None, without a prompt, when no record of the
\* collection has a non-empty Entry Name, and returns None when the user
\* answers 'back' in any letter case, whatever was answered before.
C8_SelectReturnsNone ==
    /\ [][(/\ pc = "menu"
           /\ inp' \in {Line(<<"2">>), Line(<<"3">>)}
           /\ \A i \in 1..Len(Stored) : Stored[i][EntryName].s = <<>>)
          => (pc' = "menu" /\ selected' = NoRecord /\ listing' = <<>>)]_vars
    /\ [][(pc = "select" /\ ~inp'.eof /\ IsBackInAnyCase(inp'.s))
          => (/\ pc' = "menu"
              /\ selected' = NoRecord
              /\ event' = "cancelled"
              /\ shown' = NoRecord
              /\ UNCHANGED <<fs_exists, fs_content>>)]_vars

\* C8 happens: the selection was cancelled with 'BaCK'.
C8_Witness == event = "cancelled" /\ inp = Line(<<"B", "a", "C", "K">>)

\* C9: the collector never returns a record whose Number of Birds failed
\* integer parsing: an answer that does not parse prints the error and
\* prompts again, the first answer that parses is stored as its integer
\* value, and that value is the one returned.
C9_NumberOfBirdsParsed ==
    /\ [](event = "saved" => entry[NumberOfBirds].t = "int")
    /\ [][(pc = "number" /\ ~inp'.eof) =>
            IF PyIntParse(inp'.s).ok
            THEN /\ pc' = "datetime"
                 /\ entry'[NumberOfBirds] = PyInt(PyIntParse(inp'.s).n)
            ELSE /\ pc' = "number"
                 /\ entry' = entry
                 /\ out' = <<"Invalid input for number of birds. Please enter an integer.">>]_vars
    /\ [][(pc \in {"datetime", "confirm"})
            => (entry'[NumberOfBirds] = entry[NumberOfBirds])]_vars

\* C9 happens: a record was returned whose number was typed as ' -1_2'.
C9_Witness == event = "saved" /\ entry[NumberOfBirds] = PyInt(0 - 12)

\* C10: in New Entry nothing is persisted before the confirmation: the
\* file is unchanged by the menu choice, by every field answer and by every
\* rejected confirmation answer, and the empty confirmation answer appends
\* exactly the collected record, once.
C10_NothingPersistedBeforeConfirmation ==
    /\ [][(pc = "menu" /\ pc' = "entry_name") => UNCHANGED <<fs_exists, fs_content>>]_vars
    /\ [][(pc = "confirm" /\ inp' # Line(<<>>))
            => UNCHANGED <<fs_exists, fs_content>>]_vars
    /\ [][(pc \in CollectorPrompts /\ pc # "confirm")
            => UNCHANGED <<fs_exists, fs_content>>]_vars
    /\ [][(pc = "confirm" /\ inp' = Line(<<>>)) =>
            /\ fs_exists'
            /\ StoredNext = Append(Stored, AsLoaded(entry))
            /\ Len(ReadRows(fs_content')) = Len(StoredNext) + 1]_vars

\* C10 happens: the empty confirmation answer appended the collected record
\* as the second record of the file.
C10_Witness == event = "saved" /\ Len(Stored) = 2 /\ Stored[2] = AsLoaded(entry)

\* The last step ran load_data_from_csv and the read of the file failed.
ReadFailed == out # <<>> /\ Head(out) \in ReadFailureMessages

\* C11: when the backing file exists and reading it fails, at open or at
\* any row, load_data_from_csv reports the failure and returns an empty
\* list, never the rows read before the failure, and the session goes on.
C11_FailedReadReturnsEmpty ==
    ReadFailed => (data = <<>> /\ event = "no_entries")

\* C12: load_data_from_csv on a nonexistent file returns the empty list,
\* reports no error and does not create the file; Load Entry and Delete
\* Entry chosen while the file is absent print 'No entries found.' and
\* nothing else, return to the menu, and leave the file absent.
C12_AbsentFileLoadsEmpty ==
    /\ [](~fs_exists => Stored = <<>>)
    /\ [][(pc = "menu" /\ ~fs_exists /\ inp' \in {Line(<<"2">>), Line(<<"3">>)})
            => /\ out' = <<"No entries found.">>
               /\ data' = <<>>
               /\ selected' = NoRecord
               /\ pc' = "menu"
               /\ ~fs_exists'
               /\ fs_content' = fs_content]_vars

C12_Witness ==
    /\ event = "no_entries"
    /\ inp = Line(<<"3">>)
    /\ ~fs_exists
    /\ out = <<"No entries found.">>

\* C13: when the append fails with a write failure, the failure is
\* reported and the store is as it was: Load-all returns the same list
\* after the failed append as before it, and no character of a header or
\* of a row is left in the file.
C13_FailedAppendIsNoOp ==
    [][(pc = "confirm" /\ event' = "save_failed")
        => /\ out' = <<"Unable to write to file.">>
           /\ StoredNext = Stored
           /\ fs_content' = fs_content]_vars

\* The rows the csv reader finds in the backing file.
FileRows == ReadRows(fs_content)

\* The rows the csv reader finds in the backing file as the step leaves it.
FileRowsNext == ReadRows(fs_content')

\* The texts the csv writer is given for the record e, in schema order.
RowOf(e) == [i \in 1..Len(fieldnames) |-> FieldText(e[fieldnames[i]])]

\* How many rows of the sequence rows are the header row.
HeaderRows(rows) == Cardinality({i \in 1..Len(rows) : rows[i] = fieldnames})

\* C14: starting without a backing file, after any successful appends and
\* deletes the file, if it exists, is one header row (the five column
\* names in schema order) followed only by data rows, each of them a record
\* Load-all returns; an append writes the header exactly when the file did
\* not exist, and a delete rewrite writes it once.
C14_OneHeaderThenDataRows ==
    /\ [](~fs_exists => fs_content = <<>>)
    /\ [](fs_exists =>
            LET rows == FileRows
            IN  /\ rows # <<>>
                /\ rows[1] = fieldnames
                /\ HeaderRows(rows) = 1
                /\ \A i \in 2..Len(rows) : Len(rows[i]) = Len(fieldnames)
                /\ Len(rows) = Len(Stored) + 1
                /\ SubSeq(fs_content, 1, Len(WriteHeader)) = WriteHeader)
    /\ [][(pc = "confirm" /\ event' = "saved")
            => FileRowsNext = (IF fs_exists THEN FileRows ELSE <<fieldnames>>)
                              \o <<RowOf(entry)>>]_vars
    /\ [][event' = "deleted"
            => FileRowsNext = <<fieldnames>>
                              \o [i \in 1..Len(data') |-> RowOf(data'[i])]]_vars

C14_Witness ==
    /\ event = "deleted"
    /\ fs_exists
    /\ Len(FileRows) = 2
    /\ FileRows[1] = fieldnames

\* The integers among the answers typed at the selection prompt.
TypedNumber ==
    (<<"1">> :> 1) @@ (<<" ", "2", " ">> :> 2) @@ (<<"3">> :> 3) @@ (<<"4">> :> 4)
    @@ (<<"0">> :> 0) @@ (<<"-", "1">> :> 0 - 1)

\* The records of d with a non-empty Entry Name, in the order of d.
RECURSIVE NamedOnly(_)
NamedOnly(d) ==
    IF d = <<>> THEN <<>>
    ELSE IF Head(d)[EntryName].t = "str" /\ Len(Head(d)[EntryName].s) > 0
    THEN <<Head(d)>> \o NamedOnly(Tail(d))
    ELSE NamedOnly(Tail(d))

\* C15: for n records with a non-empty Entry Name, select_entry returns
\* only on an integer answer k with 1 <= k <= n, and returns the k-th of
\* them in their given order; 0, a negative number, a number above n and a
\* text that is neither a number nor 'back' return nothing, print an error
\* and lead to the prompt again.
C15_SelectReturnsChosenPosition ==
    [][(pc = "select" /\ ~inp'.eof /\ ~IsBackInAnyCase(inp'.s))
        => IF inp'.s \in DOMAIN TypedNumber
              /\ 1 <= TypedNumber[inp'.s]
              /\ TypedNumber[inp'.s] <= Len(NamedOnly(data))
           THEN /\ selected' = NamedOnly(data)[TypedNumber[inp'.s]]
                /\ pc' = "menu"
           ELSE /\ selected' = NoRecord
                /\ pc' = "select"
                /\ event' = "select_bad"
                /\ out' # <<>>
                /\ shown' = NoRecord
                /\ UNCHANGED <<data, fs_exists, fs_content>>]_vars

\* C15 happens: the first listed record is the second of the list, and it
\* is the one returned for the answer 1.
C15_Witness ==
    /\ event = "displayed"
    /\ inp = Line(<<"1">>)
    /\ Len(data) = 2
    /\ data[1][EntryName].s = <<>>
    /\ selected = data[2]

\* C16: Load Entry, and a Delete Entry that ends without a selection (no
\* file or no record, no record with a non-empty Entry Name, or the answer
\* 'back'), leave the backing file as it was; the file is written only in
\* the step in which select_entry, called by delete_entry, returns a
\* record.
C16_FileWrittenOnlyAfterSelection ==
    /\ [][(pc = "menu" /\ inp' \in {Line(<<"2">>), Line(<<"3">>)})
            => UNCHANGED <<fs_exists, fs_content>>]_vars
    /\ [][(pc = "select" /\ (caller = "load" \/ selected' = NoRecord))
            => UNCHANGED <<fs_exists, fs_content>>]_vars
    /\ [][(pc \in {"menu", "select"} /\ ~UNCHANGED <<fs_exists, fs_content>>)
            => /\ pc = "select"
               /\ caller = "delete"
               /\ selected' # NoRecord
               /\ event' \in {"deleted", "rewrite_raised"}]_vars

\* C16 happens: a Delete Entry over a stored record was cancelled.
C16_Witness ==
    /\ event = "cancelled"
    /\ caller = "delete"
    /\ fs_exists
    /\ Len(Stored) > 0

\* Whether the record e has an empty Entry Name.
IsUnnamed(e) == e[EntryName].s = <<>>

\* The records of d with an empty Entry Name, in the order of d.
UnnamedOnly(d) == SelectSeq(d, IsUnnamed)

\* C17: a record with an empty Entry Name is created by the collector and
\* appended, and Load-all returns it; select_entry never lists or returns
\* it, so Load Entry never displays it, Delete Entry never removes it, and
\* the records with an empty Entry Name are the same, in the same order,
\* after every step at the menu or at the selection prompt, delete rewrites
\* included.
C17_UnnamedRecordNeverSelected ==
    /\ [][(pc = "confirm" /\ event' = "saved" /\ IsUnnamed(entry))
            => /\ StoredNext = Append(Stored, AsLoaded(entry))
               /\ UnnamedOnly(StoredNext) = Append(UnnamedOnly(Stored), AsLoaded(entry))]_vars
    /\ [](\A i \in 1..Len(listing) : listing[i].name # <<>>)
    /\ [](selected # NoRecord => ~IsUnnamed(selected))
    /\ [](shown # NoRecord => ~IsUnnamed(shown))
    /\ [][(pc \in {"menu", "select"})
            => \/ UNCHANGED <<fs_exists, fs_content>>
               \/ UnnamedOnly(StoredNext) = UnnamedOnly(Stored)]_vars

\* C17 happens: a record was deleted while Load-all returns a record with
\* an empty Entry Name.
C17_Witness ==
    /\ event = "deleted"
    /\ selected # NoRecord
    /\ UnnamedOnly(Stored) # <<>>

\* C18: when the backing file the session found holds rows that Load-all
\* skips, a successful delete of one record writes the file from the loaded
\* list alone: afterwards its rows are the header and the loaded records
\* without the removed one, Load-all returns exactly those, and no skipped
\* row is left, so the file may lose more than one row.
C18_DeleteRewritesFromLoadedList ==
    [][(pc = "select" /\ event' = "deleted")
        => /\ data = Stored
           /\ \E i \in 1..Len(data) :
                 /\ data[i] = selected'
                 /\ data' = WithoutIndex(data, i)
           /\ FileRowsNext = <<fieldnames>> \o [i \in 1..Len(data') |-> RowOf(data'[i])]
           /\ StoredNext = data'
           /\ Len(FileRowsNext) = Len(Stored)
           /\ Len(FileRowsNext) <= Len(FileRows) - 1]_vars

\* C18 happens: of a header, a short row and two complete rows, a delete
\* left the header and one complete row.
C18_Witness ==
    /\ event = "deleted"
    /\ ext = [header |-> fieldnames, rows |-> <<ShortRow, CompleteRow, CompleteRow>>]
    /\ Len(FileRows) = 2
    /\ Len(Stored) = 1


====
